---- MODULE Spec2Model ----
(***************************************************************************)
(* Model of ts/session/apis/snode_api/expire.ts: the expiry request that   *)
(* is signed once and raced against the first DEFAULT_CONNECTIONS snodes   *)
(* of the owner's swarm.                                                   *)
(*                                                                         *)
(* Strings are sequences of character codes (ASCII), so that template      *)
(* strings, join('') and sort() are computed as the code computes them.    *)
(* An optional value (undefined | v) is a sequence of length 0 or 1.       *)
(***************************************************************************)
EXTENDS Integers, Sequences, FiniteSets, TLC

\* ------------------------------------------------------------------ bounds
\* longest swarm the membership provider returns
MaxSwarm == 4
\* largest value of the network clock
MaxClock == 1
\* longest message hash and most message hashes of a signed request
MaxHashLen == 2
MaxHashes == 2
\* most entries of an `unchanged` record
MaxUnchanged == 2

\* ------------------------------------------------------- program constants
DEFAULT_CONNECTIONS == 3

\* ------------------------------------------------------------------ strings
StrExpire == <<101, 120, 112, 105, 114, 101>>
StrShorten == <<115, 104, 111, 114, 116, 101, 110>>
StrExtend == <<101, 120, 116, 101, 110, 100>>
StrEmpty == <<>>

ToUpperCase(s) == [i \in 1..Len(s) |-> IF s[i] >= 97 /\ s[i] <= 122 THEN s[i] - 32 ELSE s[i]]

RECURSIVE NumberToString(_)
NumberToString(n) ==
  IF n < 10 THEN <<48 + n>> ELSE NumberToString(n \div 10) \o <<48 + (n % 10)>>

RECURSIVE Join(_)
Join(strs) == IF strs = <<>> THEN <<>> ELSE Head(strs) \o Join(Tail(strs))

\* s sorts before t in code-unit order (the order of Array.prototype.sort)
RECURSIVE StrLess(_, _)
StrLess(s, t) ==
  IF t = <<>> THEN FALSE
  ELSE IF s = <<>> THEN TRUE
  ELSE IF Head(s) # Head(t) THEN Head(s) < Head(t)
  ELSE StrLess(Tail(s), Tail(t))

RECURSIVE InsertSorted(_, _)
InsertSorted(s, sorted) ==
  IF sorted = <<>> THEN <<s>>
  ELSE IF StrLess(s, Head(sorted)) THEN <<s>> \o sorted
  ELSE <<Head(sorted)>> \o InsertSorted(s, Tail(sorted))

\* no sort at all
SortStrsNone(strs) == strs

RECURSIVE SortStrs(_)
SortStrs(strs) == IF strs = <<>> THEN <<>> ELSE InsertSorted(Head(strs), SortStrs(Tail(strs)))

Min(a, b) == IF a < b THEN a ELSE b

\* --------------------------------------------------------- byte conversions
HexVal(c) == IF c >= 48 /\ c <= 57 THEN c - 48
             ELSE IF c >= 97 /\ c <= 102 THEN c - 87
             ELSE c - 55

\* fromHexToArray: two hex digits per byte
fromHexToArray(hex) ==
  [i \in 1..(Len(hex) \div 2) |-> 16 * HexVal(hex[2 * i - 1]) + HexVal(hex[2 * i])]

\* a detached signature as bytes: who made it over which message; bytes of the
\* wrong length are no signature at all
SigBytes(signer, msg) == [wellFormed |-> TRUE, signer |-> signer, msg |-> msg]
MalformedSigBytes == [wellFormed |-> FALSE, signer |-> <<>>, msg |-> <<>>]

\* the base64 string of some bytes; EmptySignature is the string ''
fromUInt8ArrayToBase64(bytes) == [empty |-> FALSE, bytes |-> bytes]
fromBase64ToArray(b64) == b64.bytes
EmptySignature == [empty |-> TRUE, bytes |-> MalformedSigBytes]

\* ---------------------------------------------------------------- identity
\* the owner's public key as held in the cache (PubKey.key)
OurKeyStr == <<48, 53, 97, 98>>
OurPubKeyObj == [key |-> OurKeyStr]
\* ed25519 key pairs in hex; a secret key is seed || public key
GoodKeyPair == [pubKey |-> <<97, 98>>, privKey |-> <<48, 49, 97, 98>>]
BadKeyPair == [pubKey |-> <<97, 98>>, privKey |-> <<48, 49>>]

\* -------------------------------------------------------- signing primitive
\* key lengths in bytes (scaled down from 64 and 32)
crypto_sign_SECRETKEYBYTES == 2
crypto_sign_PUBLICKEYBYTES == 1

\* sodium.crypto_sign_detached: throws on a secret key of the wrong length
crypto_sign_detached(message, secretKey) ==
  IF Len(secretKey) = crypto_sign_SECRETKEYBYTES
    THEN [threw |-> FALSE,
          signature |-> SigBytes(SubSeq(secretKey, crypto_sign_SECRETKEYBYTES - crypto_sign_PUBLICKEYBYTES + 1,
                                        crypto_sign_SECRETKEYBYTES), message)]
    ELSE [threw |-> TRUE, signature |-> MalformedSigBytes]

\* sodium.crypto_sign_verify_detached: throws on malformed signature or key bytes
crypto_sign_verify_detached(signature, message, publicKey) ==
  IF ~signature.wellFormed \/ Len(publicKey) # crypto_sign_PUBLICKEYBYTES THEN "throws"
  ELSE IF signature.signer = publicKey /\ signature.msg = message THEN "true"
  ELSE "false"

\* ------------------------------------------------------- generateSignature
\* the signing string, were the action left out of it
SigningStringNoAction(shortenOrExtend, timestamp, messageHashes) ==
  StrExpire \o NumberToString(timestamp) \o Join(messageHashes)

\* the signing string, were the hashes sorted as the unchanged pairs are
SigningStringSorted(shortenOrExtend, timestamp, messageHashes) ==
  StrExpire \o shortenOrExtend \o NumberToString(timestamp) \o Join(SortStrs(messageHashes))

\* "expire" || ShortenOrExtend || expiry || messages[0] || ... || messages[N]
SigningString(shortenOrExtend, timestamp, messageHashes) ==
  StrExpire \o shortenOrExtend \o NumberToString(timestamp) \o Join(messageHashes)

\* <<>> is null, else <<[signature, pubkey_ed25519]>>
generateSignature(keyPairOpt, shortenOrExtend, timestamp, messageHashes) ==
  IF keyPairOpt = <<>> THEN <<>>
  ELSE LET kp == keyPairOpt[1]
           edKeyPrivBytes == fromHexToArray(kp.privKey)
           verificationString == SigningString(shortenOrExtend, timestamp, messageHashes)
           r == crypto_sign_detached(verificationString, edKeyPrivBytes)
       IN IF r.threw THEN <<>>
          ELSE <<[signature |-> fromUInt8ArrayToBase64(r.signature),
                  pubkey_ed25519 |-> kp.pubKey]>>

\* --------------------------------------------------------- verifySignature
\* lodash isEmpty of the `failed` field: undefined and booleans are empty,
\* a non-empty string is not
FailedIsEmpty(failed) == failed \in {"absent", "true"}

\* `${key}${value}` of every entry of the unchanged record, in insertion order
RECURSIVE UnchangedPairs(_)
UnchangedPairs(unchanged) ==
  IF unchanged = <<>> THEN <<>>
  ELSE <<Head(unchanged)[1] \o NumberToString(Head(unchanged)[2])>> \o UnchangedPairs(Tail(unchanged))

\* PUBKEY_HEX || EXPIRY || RMSGs... || UMSGs... || CMSG_EXPs...
VerificationString(pubkey, expiryApplied, messageHashes, updatedHashes, unchangedHashes) ==
  LET hashes == messageHashes \o updatedHashes \o
                  (IF Len(unchangedHashes) > 0 THEN SortStrs(UnchangedPairs(unchangedHashes)) ELSE <<>>)
  IN pubkey.key \o NumberToString(expiryApplied) \o Join(hashes)

\* verifySignature without its first check
verifySignatureRunNoGuard(pubkey, snodePubkey, expiryApplied, signature, messageHashes, updatedHashes, unchangedHashes) ==
  IF updatedHashes = <<>> THEN [result |-> "throws", primitive |-> "notCalled"]
  ELSE LET isValid == crypto_sign_verify_detached(
                        fromBase64ToArray(signature),
                        VerificationString(pubkey, expiryApplied, messageHashes, updatedHashes[1], unchangedHashes),
                        fromHexToArray(snodePubkey))
       IN [result |-> IF isValid = "throws" THEN "false" ELSE isValid, primitive |-> isValid]

\* verifySignature, were the owner's key the one to verify with
verifySignatureRunOwnerKey(pubkey, snodePubkey, expiryApplied, signature, messageHashes, updatedHashes, unchangedHashes) ==
  verifySignatureRunNoGuard(pubkey, pubkey.key, expiryApplied, signature, messageHashes, updatedHashes,
                            unchangedHashes)

\* one run of verifySignature. result: "true" | "false", or "throws" when
\* updatedHashes is undefined and is spread; primitive: what
\* crypto_sign_verify_detached did, "notCalled" | "true" | "false" | "throws".
\* updatedHashes is optional: <<>> undefined, <<array>> otherwise.
verifySignatureRun(pubkey, snodePubkey, expiryApplied, signature, messageHashes, updatedHashes, unchangedHashes) ==
  IF expiryApplied = 0 \/ messageHashes = <<>> \/ signature.empty
    THEN [result |-> "false", primitive |-> "notCalled"]
  ELSE IF updatedHashes = <<>> THEN [result |-> "throws", primitive |-> "notCalled"]
  ELSE LET edKeyPrivBytes == fromHexToArray(snodePubkey)
           verificationString ==
             VerificationString(pubkey, expiryApplied, messageHashes, updatedHashes[1], unchangedHashes)
           isValid == crypto_sign_verify_detached(fromBase64ToArray(signature), verificationString,
                                                  edKeyPrivBytes)
       IN [result |-> IF isValid = "throws" THEN "false" ELSE isValid, primitive |-> isValid]

\* what verifySignature resolves to, or "throws"
verifySignature(pubkey, snodePubkey, expiryApplied, signature, messageHashes, updatedHashes, unchangedHashes) ==
  verifySignatureRun(pubkey, snodePubkey, expiryApplied, signature, messageHashes, updatedHashes,
                     unchangedHashes).result

\* ------------------------------------------------ processExpirationResults
\* results[nodeKey] = value on a record kept as a sequence of <<key, value>>
RECURSIVE SetResult(_, _, _)
SetResult(results, nodeKey, value) ==
  IF results = <<>> THEN << <<nodeKey, value>> >>
  ELSE IF Head(results)[1] = nodeKey THEN << <<nodeKey, value>> >> \o Tail(results)
  ELSE <<Head(results)>> \o SetResult(Tail(results), nodeKey, value)

\* the value written for an entry whose `failed` is not empty
FailedResult == [hashes |-> << <<>> >>, expiry |-> 0]

\* ProcessEntries, throwing on a signature that is not valid
RECURSIVE ProcessEntriesStrict(_, _, _, _)
ProcessEntriesStrict(pubkey, swarm, messageHashes, results) ==
  IF swarm = <<>> THEN [threw |-> FALSE, results |-> results]
  ELSE LET nodeKey == Head(swarm)[1]
           e == Head(swarm)[2]
           isValid == verifySignature(pubkey, nodeKey, e.expiry, e.signature, messageHashes,
                                      e.updated, e.unchanged)
       IN IF isValid # "true" THEN [threw |-> TRUE, results |-> results]
          ELSE ProcessEntriesStrict(pubkey, Tail(swarm), messageHashes,
                                    SetResult(results, nodeKey, [hashes |-> e.updated, expiry |-> e.expiry]))

\* the for loop over Object.keys(swarm).
\* swarm: a sequence of <<nodeKey, entry>> in key order, keys distinct.
\* entry: [failed, updated, unchanged, expiry, signature].
RECURSIVE ProcessEntries(_, _, _, _)
ProcessEntries(pubkey, swarm, messageHashes, results) ==
  IF swarm = <<>> THEN [threw |-> FALSE, results |-> results]
  ELSE LET nodeKey == Head(swarm)[1]
           e == Head(swarm)[2]
           r1 == IF ~FailedIsEmpty(e.failed) THEN SetResult(results, nodeKey, FailedResult) ELSE results
           isValid == verifySignature(pubkey, nodeKey, e.expiry, e.signature, messageHashes,
                                      e.updated, e.unchanged)
       IN IF isValid = "throws" THEN [threw |-> TRUE, results |-> r1]
          ELSE ProcessEntries(pubkey, Tail(swarm), messageHashes,
                              SetResult(r1, nodeKey, [hashes |-> e.updated, expiry |-> e.expiry]))

\* throws on an empty (or absent) swarm map
processExpirationResults(pubkey, swarm, messageHashes) ==
  IF swarm = <<>> THEN [threw |-> TRUE, results |-> <<>>]
  ELSE ProcessEntries(pubkey, swarm, messageHashes, <<>>)

\* ------------------------------------------------------------ expireOnNodes
\* const rpcParams = { ...params, pubkey: params.pubkey.key }
RpcParamsDropSignature(params) == [params EXCEPT !.pubkey = params.pubkey.key, !.signature = EmptySignature]

RpcParams(params) == [params EXCEPT !.pubkey = params.pubkey.key]

\* expireOnNodes without its `return false` paths
expireOnNodesResultAlwaysTrue(params, reply) == IF reply.throws THEN "throws" ELSE "true"

\* what snodeRpc gives back: it throws, or it returns a result (null, or
\* status and body). body: "empty" | "garbage" (not JSON) | "json" with its
\* swarm map (an absent swarm map is the empty one: isEmpty holds of both).
\* The continuation of expireOnNodes after the await: "true" | "false" | "throws".
expireOnNodesResult(params, reply) ==
  IF reply.throws THEN "throws"
  ELSE IF reply.isNull \/ reply.status # 200 \/ reply.body = "empty" THEN "false"
  ELSE IF reply.body = "garbage" THEN "false"
  ELSE IF processExpirationResults(params.pubkey, reply.swarm, params.messages).threw THEN "false"
  ELSE "true"

\* ------------------------------------------------------ expireMessageOnSnode
\* if (extend && shorten)
BothRequestedNever(extend, shorten) == FALSE

BothRequested(extend, shorten) == extend /\ shorten

\* shorten ? 'shorten' : extend ? 'extend' : ''
ShortenOrExtend(extend, shorten) == IF shorten THEN StrShorten ELSE IF extend THEN StrExtend ELSE StrEmpty

\* getNowWithNetworkOffset() + expireTimer
expiryTimestampNoTimer(nowValue, expireTimer) == nowValue

expiryTimestamp(nowValue, expireTimer) == nowValue + expireTimer

\* slice(swarm, 0, DEFAULT_CONNECTIONS)
sliceWhole(swarmNodes) == swarmNodes

slice(swarmNodes) == SubSeq(swarmNodes, 1, Min(Len(swarmNodes), DEFAULT_CONNECTIONS))

\* the params object; `x || undefined` is TRUE or absent, written as a BOOLEAN
BuildParams(pubKeyObj, keyPair, messageHash, expiryValue, extend, shorten, sig) ==
  [pubkey |-> pubKeyObj,
   pubkey_ed25519 |-> ToUpperCase(keyPair.pubKey),
   messages |-> <<messageHash>>,
   expiry |-> expiryValue,
   extend |-> extend,
   shorten |-> shorten,
   signature |-> sig.signature]

\* the value of one promise of usedNodes.map: usedNode if the send succeeded,
\* undefined (<<>>) otherwise
PromiseValueNever(successfulSend, usedNode) == <<>>

PromiseValue(successfulSend, usedNode) == IF successfulSend THEN <<usedNode>> ELSE <<>>

\* ------------------------------------------------------------------ errors
\* an error value: its name, the snode it came from (optional) and the owner
\* key it carries (optional)
ErrorValue(name, node, key) == [name |-> name, node |-> node, key |-> key]
\* what snodeRpc throws when targetNode cannot be reached
TransportError(node) == ErrorValue("TransportError", <<node>>, <<>>)
EmptySwarmError(key) == ErrorValue("EmptySwarmError", <<>>, <<key>>)
\* window.log.eror is not a function
TypeError == ErrorValue("TypeError", <<>>, <<>>)
\* firstTrue's failure when no attempt threw
AggregateFailure == ErrorValue("AggregateFailure", <<>>, <<>>)

\* ---------------------------------------------------------------- firstTrue
\* the promise firstTrue returns: pending, resolved with the first truthy
\* value, or rejected once every promise has settled without one, with the
\* last error observed (error: the last error observed so far)
PendingRace == [st |-> "pending", value |-> <<>>, error |-> <<>>]

\* firstTrue, were it to wait for a truthy value for ever
firstTrueNeverRejects(race, settlement, allSettled) ==
  IF race.st # "pending" THEN race
  ELSE IF ~settlement.rejected /\ settlement.value # <<>>
    THEN [st |-> "resolved", value |-> settlement.value, error |-> race.error]
  ELSE PendingRace

\* the reaction of firstTrue to one promise settling: settlement is
\* [rejected, value, error]; allSettled says whether none is left pending
firstTrue(race, settlement, allSettled) ==
  IF race.st # "pending" THEN race
  ELSE IF ~settlement.rejected /\ settlement.value # <<>>
    THEN [st |-> "resolved", value |-> settlement.value, error |-> race.error]
  ELSE LET lastError == IF settlement.rejected THEN <<settlement.error>> ELSE race.error
       IN IF allSettled
            THEN [st |-> "rejected", value |-> <<>>,
                  error |-> IF lastError = <<>> THEN <<AggregateFailure>> ELSE lastError]
            ELSE [st |-> "pending", value |-> <<>>, error |-> lastError]

\* ------------------------------------------------------------- environment
\* the message hash and the timer of the requests made
MessageHash == <<104, 49>>
ExpireTimers == {2}

\* snodes are numbered; NodeKey is the snode's ed25519 key in hex
Snodes == 1..MaxSwarm
NodeKey(n) == <<48, 48 + n>>

\* the lists getSwarmFor returns: distinct snodes, in ascending or in
\* descending order, of every length up to MaxSwarm
Ascending(n) == [i \in 1..n |-> i]
Descending(n) == [i \in 1..n |-> MaxSwarm + 1 - i]
SwarmLists == {Ascending(n) : n \in 0..MaxSwarm} \cup {Descending(n) : n \in 0..MaxSwarm}

\* one entry of a reply's swarm map, signed by signerKey over its own fields
SignedEntry(params, signerKey, updated, expiryApplied) ==
  [failed |-> "absent", updated |-> <<updated>>, unchanged |-> <<>>, expiry |-> expiryApplied,
   signature |-> fromUInt8ArrayToBase64(
      SigBytes(fromHexToArray(signerKey),
               VerificationString(params.pubkey, expiryApplied, params.messages, updated, <<>>)))]

OtherSnode(n) == IF n = 1 THEN 2 ELSE 1

ReplyKinds ==
  {"throw", "status500", "emptyBody", "garbage", "noSwarm", "valid", "invalidSig", "uncheckableSig"}
FailingKinds == {"throw", "status500", "emptyBody", "garbage", "noSwarm"}

\* the replies snodeRpc gives for a request `params` sent to snode n
Reply(kind, params, n) ==
  LET base == [throws |-> FALSE, isNull |-> FALSE, status |-> 200, body |-> "json", swarm |-> <<>>]
      good == SignedEntry(params, NodeKey(n), params.messages, params.expiry)
      other == SignedEntry(params, NodeKey(OtherSnode(n)), params.messages, params.expiry)
      \* signed by another snode than the one the entry is keyed by
      forged == SignedEntry(params, NodeKey(OtherSnode(n)), <<>>, params.expiry + 1)
      \* a signature of the wrong length
      garbled == [good EXCEPT !.signature = fromUInt8ArrayToBase64(MalformedSigBytes)]
  IN CASE kind = "throw" -> [base EXCEPT !.throws = TRUE]
       [] kind = "status500" -> [base EXCEPT !.status = 500]
       [] kind = "emptyBody" -> [base EXCEPT !.body = "empty"]
       [] kind = "garbage" -> [base EXCEPT !.body = "garbage"]
       [] kind = "noSwarm" -> base
       [] kind = "valid" ->
            [base EXCEPT !.swarm = << <<NodeKey(n), good>>, <<NodeKey(OtherSnode(n)), other>> >>]
       [] kind = "invalidSig" ->
            [base EXCEPT !.swarm = << <<NodeKey(n), forged>>, <<NodeKey(OtherSnode(n)), other>> >>]
       [] kind = "uncheckableSig" ->
            [base EXCEPT !.swarm = << <<NodeKey(n), garbled>>, <<NodeKey(OtherSnode(n)), other>> >>]

\* -------------------------------------------------------------------- state
VARIABLES
  props,          \* the argument of expireMessageOnSnode
  pc,             \* where expireMessageOnSnode is
  now,            \* the network clock
  nowRead,        \* optional: what getNowWithNetworkOffset returned
  clockReads,     \* calls of getNowWithNetworkOffset
  swarmCalls,     \* calls of getSwarmFor
  signCalls,      \* calls of crypto_sign_detached
  ourPubKey,      \* optional
  ourEd25519Key,  \* optional
  swarm,
  expiry,         \* optional
  signResult,     \* optional
  params,         \* optional
  usedNodes,
  rpcLog,         \* the calls of snodeRpc, in order: [targetNode, params]
  attempt,        \* per used node: [st, reply], st "inflight" | "true" | "false" | "throws"
  race,           \* the promise of firstTrue
  snode,          \* optional
  outcome,        \* of the invocation: [st, error], st "pending" | "returned" | "raised"
  input,          \* optional: the arguments of a function applied on its own
  output          \* optional: what that function gave

vars == <<input, output, props, pc, now, nowRead, clockReads, swarmCalls, signCalls, ourPubKey, ourEd25519Key, swarm,
          expiry, signResult, params, usedNodes, rpcLog, attempt, race, snode, outcome>>

Pending == [st |-> "pending", error |-> <<>>]
Returned == [st |-> "returned", error |-> <<>>]
Raised(e) == [st |-> "raised", error |-> <<e>>]

Init ==
  /\ props \in [messageHash : {MessageHash}, expireTimer : ExpireTimers,
                extend : BOOLEAN, shorten : BOOLEAN]
  /\ pc = "start"
  /\ now \in 0..MaxClock
  /\ nowRead = <<>>
  /\ clockReads = 0
  /\ swarmCalls = 0
  /\ signCalls = 0
  /\ ourPubKey = <<>>
  /\ ourEd25519Key = <<>>
  /\ swarm = <<>>
  /\ expiry = <<>>
  /\ signResult = <<>>
  /\ params = <<>>
  /\ usedNodes = <<>>
  /\ rpcLog = <<>>
  /\ attempt = <<>>
  /\ race = PendingRace
  /\ snode = <<>>
  /\ outcome = Pending
  /\ input = <<>>
  /\ output = <<>>

\* the clock advances
Tick ==
  /\ now < MaxClock
  /\ now' = now + 1
  /\ UNCHANGED <<input, output, props, pc, nowRead, clockReads, swarmCalls, signCalls, ourPubKey, ourEd25519Key, swarm,
                 expiry, signResult, params, usedNodes, rpcLog, attempt, race, snode, outcome>>

\* lines 215-229: validation, the cached public key, up to the await of the key pair
Call ==
  /\ pc = "start"
  /\ IF BothRequested(props.extend, props.shorten)
       THEN /\ pc' = "done"
            /\ outcome' = Returned
            /\ UNCHANGED ourPubKey
       ELSE /\ pc' = "awaitKeyPair"
            /\ ourPubKey' \in {<<>>, <<OurPubKeyObj>>}
            /\ UNCHANGED outcome
  /\ UNCHANGED <<input, output, props, now, nowRead, clockReads, swarmCalls, signCalls, ourEd25519Key, swarm, expiry,
                 signResult, params, usedNodes, rpcLog, attempt, race, snode>>

\* lines 229-236: the key pair arrives; getSwarmFor is called
KeyPairReturn ==
  /\ pc = "awaitKeyPair"
  /\ ourEd25519Key' \in {<<>>, <<GoodKeyPair>>, <<BadKeyPair>>}
  /\ IF ourPubKey = <<>> \/ ourEd25519Key' = <<>>
       THEN /\ pc' = "done"
            /\ outcome' = Raised(TypeError)
            /\ UNCHANGED swarmCalls
       ELSE /\ pc' = "awaitSwarm"
            /\ swarmCalls' = swarmCalls + 1
            /\ UNCHANGED outcome
  /\ UNCHANGED <<input, output, props, now, nowRead, clockReads, signCalls, ourPubKey, swarm, expiry, signResult,
                 params, usedNodes, rpcLog, attempt, race, snode>>

\* lines 236-239: the swarm arrives; the clock is read; generateSignature
\* runs up to its await of the sodium renderer
SwarmReturn ==
  /\ pc = "awaitSwarm"
  /\ swarm' \in SwarmLists
  /\ nowRead' = <<now>>
  /\ expiry' = <<expiryTimestamp(now, props.expireTimer)>>
  /\ clockReads' = clockReads + 1
  /\ pc' = "awaitSign"
  /\ UNCHANGED <<input, output, props, now, swarmCalls, signCalls, ourPubKey, ourEd25519Key, signResult,
                 params, usedNodes, rpcLog, attempt, race, snode, outcome>>

\* lines 37-49 and 246-278: the signature is made; params, usedNodes; every
\* used node's snodeRpc is called; firstTrue is awaited
SignReturn ==
  /\ pc = "awaitSign"
  /\ signCalls' = signCalls + 1
  /\ LET sig == generateSignature(ourEd25519Key, ShortenOrExtend(props.extend, props.shorten),
                                  expiry[1], <<props.messageHash>>)
         p == BuildParams(ourPubKey[1], ourEd25519Key[1], props.messageHash, expiry[1],
                          props.extend, props.shorten, sig[1])
         used == slice(swarm)
     IN /\ signResult' = sig
        /\ IF sig = <<>>
             THEN /\ pc' = "done"
                  /\ outcome' = Returned
                  /\ UNCHANGED <<params, usedNodes, rpcLog, attempt>>
             ELSE /\ params' = <<p>>
                  /\ usedNodes' = used
                  /\ IF Len(used) = 0
                       THEN /\ pc' = "done"
                            /\ outcome' = Raised(EmptySwarmError(ourPubKey[1].key))
                            /\ UNCHANGED <<rpcLog, attempt>>
                       ELSE /\ pc' = "awaitFirstTrue"
                            /\ rpcLog' = [i \in 1..Len(used) |->
                                            [targetNode |-> used[i], params |-> RpcParams(p)]]
                            /\ attempt' = [i \in 1..Len(used) |-> [st |-> "inflight", reply |-> "none"]]
                            /\ UNCHANGED outcome
  /\ UNCHANGED <<input, output, props, now, nowRead, clockReads, swarmCalls, ourPubKey, ourEd25519Key, swarm, expiry,
                 race, snode>>

\* lines 176-206 and 268-274: snodeRpc of attempt i returns or throws;
\* expireOnNodes finishes, the promise of the attempt settles and firstTrue sees it
RpcReply(i) ==
  /\ i \in DOMAIN attempt
  /\ attempt[i].st = "inflight"
  /\ \E kind \in ReplyKinds :
       LET res == expireOnNodesResult(params[1], Reply(kind, params[1], usedNodes[i]))
           settlement == [rejected |-> res = "throws",
                          value |-> IF res = "throws" THEN <<>> ELSE PromiseValue(res = "true", usedNodes[i]),
                          error |-> TransportError(usedNodes[i])]
           after == [attempt EXCEPT ![i] = [st |-> res, reply |-> kind]]
       IN /\ attempt' = after
          /\ race' = firstTrue(race, settlement, \A j \in DOMAIN after : after[j].st # "inflight")
  /\ UNCHANGED <<input, output, props, pc, now, nowRead, clockReads, swarmCalls, signCalls, ourPubKey, ourEd25519Key,
                 swarm, expiry, signResult, params, usedNodes, rpcLog, snode, outcome>>

\* Resume, were the coordinator to wait for every attempt
ResumeWhenAllSettled ==
  /\ pc = "awaitFirstTrue"
  /\ race.st # "pending"
  /\ \A j \in DOMAIN attempt : attempt[j].st # "inflight"
  /\ pc' = "done"
  /\ IF race.st = "resolved"
       THEN /\ snode' = race.value
            /\ outcome' = [st |-> "returned", error |-> <<>>]
       ELSE /\ outcome' = [st |-> "raised", error |-> race.error]
            /\ UNCHANGED snode
  /\ UNCHANGED <<input, output, props, now, nowRead, clockReads, swarmCalls, signCalls, ourPubKey, ourEd25519Key, swarm,
                 expiry, signResult, params, usedNodes, rpcLog, attempt, race>>

\* lines 276-288: the await of firstTrue ends
Resume ==
  /\ pc = "awaitFirstTrue"
  /\ race.st # "pending"
  /\ pc' = "done"
  /\ IF race.st = "resolved"
       THEN /\ snode' = race.value
            /\ outcome' = Returned
       ELSE /\ outcome' = Raised(race.error[1])
            /\ UNCHANGED snode
  /\ UNCHANGED <<input, output, props, now, nowRead, clockReads, swarmCalls, signCalls, ourPubKey, ourEd25519Key, swarm,
                 expiry, signResult, params, usedNodes, rpcLog, attempt, race>>

Next ==
  \/ Tick
  \/ Call
  \/ KeyPairReturn
  \/ SwarmReturn
  \/ SignReturn
  \/ \E i \in DOMAIN attempt : RpcReply(i)
  \/ Resume

Spec == Init /\ [][Next]_vars

\* ------------------------------------------------------------- properties
\* snodeRpc has been called for the used nodes
Dispatched == attempt # <<>>
AllSettled == \A i \in DOMAIN attempt : attempt[i].st # "inflight"
SomeSuccess == \E i \in DOMAIN attempt : attempt[i].st = "true"

\* C1: when at least one attempt reported success and every other attempt
\* that has completed threw a transport error, firstTrue has resolved with a
\* used node, nothing is raised, and the invocation ends by returning,
\* whatever the order of completion.
C1_SuccessAmongTransportErrors ==
  (/\ Dispatched
   /\ SomeSuccess
   /\ \A i \in DOMAIN attempt : attempt[i].st \in {"true", "throws", "inflight"})
  => /\ race.st = "resolved"
     /\ \E i \in DOMAIN attempt : attempt[i].st = "true" /\ race.value = <<usedNodes[i]>>
     /\ outcome.st # "raised"
     /\ pc = "done" => outcome = Returned /\ snode = race.value

\* a transport error was seen before the success, and the invocation returned
C1_Witness ==
  /\ Len(attempt) = DEFAULT_CONNECTIONS
  /\ Cardinality({i \in DOMAIN attempt : attempt[i].st = "true"}) = 1
  /\ Cardinality({i \in DOMAIN attempt : attempt[i].st = "throws"}) = DEFAULT_CONNECTIONS - 1
  /\ race.st = "resolved"
  /\ race.error # <<>>
  /\ pc = "done"
  /\ outcome = Returned

\* C2: when every dispatched attempt got a failing reply (a thrown transport
\* error, a non-200 status, an empty body, a body that is no JSON or has no
\* swarm map), firstTrue rejects and the invocation ends raised; and an
\* invocation that dispatched returns normally only if some attempt succeeded.
C2_AllFailedRaises ==
  /\ (Dispatched /\ \A i \in DOMAIN attempt : attempt[i].reply \in FailingKinds)
       => /\ race.st = "rejected"
          /\ pc = "done" => outcome.st = "raised"
  /\ (Dispatched /\ pc = "done" /\ outcome.st = "returned") => SomeSuccess

\* all three attempts failed, by a mix of local failures and thrown errors
C2_Witness ==
  /\ Len(attempt) = DEFAULT_CONNECTIONS
  /\ \E i, j \in DOMAIN attempt : attempt[i].st = "false" /\ attempt[j].st = "throws"
  /\ \A i \in DOMAIN attempt : attempt[i].reply \in FailingKinds
  /\ pc = "done"
  /\ outcome.st = "raised"

\* C3: an invocation with both extend and shorten ends with an error raised
\* to the caller.
C3_BothRaisesValidationError ==
  (pc = "done" /\ props.extend /\ props.shorten) => outcome.st = "raised"

\* C4: an invocation with both extend and shorten never calls getSwarmFor,
\* never calls snodeRpc, never signs and never reads the key pair.
C4_BothMakesNoCalls ==
  (props.extend /\ props.shorten)
  => /\ swarmCalls = 0
     /\ rpcLog = <<>>
     /\ signCalls = 0
     /\ signResult = <<>>
     /\ ~Dispatched

C4_Witness == pc = "done" /\ props.extend /\ props.shorten /\ swarmCalls = 0 /\ rpcLog = <<>>

\* getSwarmFor has returned, and returned no snode
SwarmReturnedEmpty == clockReads > 0 /\ swarm = <<>>

\* C5: whenever getSwarmFor returned an empty swarm, the invocation ends with
\* EmptySwarmError raised and no call of snodeRpc.
C5_EmptySwarmRaises ==
  (SwarmReturnedEmpty /\ pc = "done")
  => /\ outcome.st = "raised"
     /\ outcome.error[1].name = "EmptySwarmError"
     /\ rpcLog = <<>>

\* the first entry of the swarm map of the reply attempt i got does not verify
FirstEntryUnverified(i) ==
  LET reply == Reply(attempt[i].reply, params[1], usedNodes[i])
      e == reply.swarm[1][2]
  IN /\ reply.swarm # <<>>
     /\ verifySignature(params[1].pubkey, reply.swarm[1][1], e.expiry, e.signature,
                        params[1].messages, e.updated, e.unchanged) = "false"

\* C6: an attempt whose reply is 200 with a parsed swarm map holding an entry
\* whose signature does not verify, or cannot be checked, reports success, and
\* the invocation does not fail: firstTrue resolves and the invocation returns.
C6_InvalidSignatureStillSuccess ==
  \A i \in DOMAIN attempt :
    attempt[i].reply \in {"invalidSig", "uncheckableSig"}
    => /\ FirstEntryUnverified(i)
       /\ attempt[i].st = "true"
       /\ race.st = "resolved"
       /\ pc = "done" => outcome = Returned

\* the only successes are attempts with an entry that does not verify
C6_Witness ==
  /\ Dispatched
  /\ \E i \in DOMAIN attempt : attempt[i].reply = "invalidSig"
  /\ \E i \in DOMAIN attempt : attempt[i].reply = "uncheckableSig"
  /\ \A i \in DOMAIN attempt : attempt[i].reply \in FailingKinds \cup {"invalidSig", "uncheckableSig"}
  /\ pc = "done"
  /\ outcome = Returned

C7_State ==
  SomeSuccess
  => /\ race.st = "resolved"
     /\ pc = "awaitFirstTrue" => ENABLED Resume
     /\ pc = "done" => outcome = Returned
C7_Step ==
  /\ race.st = "resolved" => race' = race
  /\ pc = "done" => pc' = "done" /\ outcome' = outcome /\ snode' = snode
\* C7: as soon as an attempt has reported success firstTrue is resolved and
\* the invocation can finish without the attempts still in flight; once the
\* invocation has ended, attempts that complete later change neither its
\* outcome nor the snode it settled on.
C7_ResolvesOnFirstSuccess == [](C7_State) /\ [][C7_Step]_vars

\* returned while two attempts have not completed
C7_Witness ==
  /\ pc = "done"
  /\ outcome = Returned
  /\ Cardinality({i \in DOMAIN attempt : attempt[i].st = "inflight"}) = DEFAULT_CONNECTIONS - 1

\* the number of calls of snodeRpc with target n
CallsTo(n) == Cardinality({i \in DOMAIN rpcLog : rpcLog[i].targetNode = n})

\* C8: once the requests are sent, snodeRpc has been called exactly once for
\* each of the first min(DEFAULT_CONNECTIONS, n) snodes of the swarm, in swarm
\* order, and for no other snode; before that, and in an invocation that ends
\* earlier, it has not been called; no later step adds a call.
C8_OneCallPerUsedNode ==
  LET k == Min(DEFAULT_CONNECTIONS, Len(swarm))
  IN IF signResult # <<>> /\ swarm # <<>>
       THEN /\ Len(rpcLog) = k
            /\ \A i \in 1..k : rpcLog[i].targetNode = swarm[i]
            /\ \A n \in Snodes :
                 CallsTo(n) = IF \E i \in 1..k : swarm[i] = n THEN 1 ELSE 0
       ELSE rpcLog = <<>>

\* a swarm longer than DEFAULT_CONNECTIONS, every attempt completed
C8_Witness ==
  /\ Len(swarm) > DEFAULT_CONNECTIONS
  /\ Len(rpcLog) = DEFAULT_CONNECTIONS
  /\ AllSettled
  /\ pc = "done"

\* C9: the clock is read at most once, and once before any call of snodeRpc;
\* every call carries the expiry made of the value read plus expireTimer.
C9_ClockReadOnce ==
  /\ clockReads <= 1
  /\ (clockReads = 1) = (nowRead # <<>>)
  /\ rpcLog # <<>> => clockReads = 1
  /\ \A i \in DOMAIN rpcLog : rpcLog[i].params.expiry = nowRead[1] + props.expireTimer
  /\ \A i, j \in DOMAIN rpcLog : rpcLog[i].params.expiry = rpcLog[j].params.expiry

\* the clock moved on after it was read, and all requests are out
C9_Witness ==
  /\ Len(rpcLog) = DEFAULT_CONNECTIONS
  /\ nowRead # <<>>
  /\ now > nowRead[1]
  /\ AllSettled

C10_State ==
  /\ signCalls <= 1
  /\ rpcLog # <<>> => signCalls = 1 /\ signResult # <<>> /\ params # <<>>
  /\ \A i \in DOMAIN rpcLog :
       LET sent == rpcLog[i].params
       IN /\ sent.signature = signResult[1].signature
          /\ sent.signature =
               fromUInt8ArrayToBase64(
                 SigBytes(fromHexToArray(ourEd25519Key[1].pubKey),
                          SigningString(ShortenOrExtend(props.extend, props.shorten),
                                        expiry[1], <<props.messageHash>>)))
          /\ sent.pubkey = ourPubKey[1].key
          /\ sent.messages = <<props.messageHash>>
          /\ sent.expiry = expiry[1]
          /\ sent.extend = props.extend
          /\ sent.shorten = props.shorten
          /\ sent.pubkey_ed25519 = params[1].pubkey_ed25519
  /\ \A i, j \in DOMAIN rpcLog : rpcLog[i].params = rpcLog[j].params
C10_Step ==
  /\ params # <<>> => params' = params
  /\ rpcLog # <<>> => rpcLog' = rpcLog
  /\ signResult # <<>> => signResult' = signResult
\* C10: the request is signed at most once and once before any call of
\* snodeRpc; every call carries the signature made over the signing string of
\* this request, and the owner key, message hash, expiry and action of this
\* request; all calls carry equal params; the shared params never change
\* once built.
C10_SignedOnceSameRequest == [](C10_State) /\ [][C10_Step]_vars

\* three requests out, two attempts completed
C10_Witness ==
  /\ Len(rpcLog) = DEFAULT_CONNECTIONS
  /\ signCalls = 1
  /\ Cardinality({i \in DOMAIN attempt : attempt[i].st # "inflight"}) = 2

\* C13: when crypto_sign_detached has failed (generateSignature gave null),
\* the invocation ends with an error raised to the caller.
C13_SigningFailureRaises ==
  (pc = "done" /\ signCalls = 1 /\ signResult = <<>>) => outcome.st = "raised"

\* ------------------------------------------- the string builders on their own
\* expireMessageOnSnode not called
CoordinatorIdle ==
  /\ props = [messageHash |-> MessageHash, expireTimer |-> 2, extend |-> FALSE, shorten |-> FALSE]
  /\ pc = "start"
  /\ now = 0
  /\ nowRead = <<>>
  /\ clockReads = 0
  /\ swarmCalls = 0
  /\ signCalls = 0
  /\ ourPubKey = <<>>
  /\ ourEd25519Key = <<>>
  /\ swarm = <<>>
  /\ expiry = <<>>
  /\ signResult = <<>>
  /\ params = <<>>
  /\ usedNodes = <<>>
  /\ rpcLog = <<>>
  /\ attempt = <<>>
  /\ race = PendingRace
  /\ snode = <<>>
  /\ outcome = Pending

coordinatorVars ==
  <<props, pc, now, nowRead, clockReads, swarmCalls, signCalls, ourPubKey, ourEd25519Key, swarm,
    expiry, signResult, params, usedNodes, rpcLog, attempt, race, snode, outcome>>

\* the characters of hashes ('1' and 'a'), the hashes, the sequences of hashes
HashChars == {49, 97}
StrsOfLength(lo, hi) == UNION {[1..n -> HashChars] : n \in lo..hi}
HashStrs == StrsOfLength(1, MaxHashLen)
HashSeqs == UNION {[1..n -> HashStrs] : n \in 0..MaxHashes}
Timestamps == {2, 12}
ActionTokens == {StrEmpty, StrShorten, StrExtend}

\* the orders of n things, and a sequence put in one of them
Orders(n) == {f \in [1..n -> 1..n] : \A i, j \in 1..n : f[i] = f[j] => i = j}
Reorder(seq, f) == [i \in 1..Len(seq) |-> seq[f[i]]]

\* the entries of an `unchanged` record in insertion order: <<hash, expiry>>,
\* no hash twice
UnchangedEntries == StrsOfLength(1, 2) \X {1, 12}
UnchangedRecords ==
  UNION {{u \in [1..n -> UnchangedEntries] : \A i, j \in 1..n : u[i][1] = u[j][1] => i = j}
         : n \in 0..MaxUnchanged}

\* the requests another request is set against: [shortenOrExtend, timestamp,
\* messageHashes]
OtherRequests ==
  [shortenOrExtend : {StrEmpty, StrExtend},
   timestamp : {2, 21},
   messageHashes : {<<<<97>>>>, <<<<49>>, <<97>>>>, <<<<49>>, <<49>>>>, <<<<49, 49>>>>}]

InitStrings ==
  /\ CoordinatorIdle
  /\ output = <<>>
  /\ \/ \E h \in HashSeqs, a \in ActionTokens, t \in Timestamps :
          \E f \in Orders(Len(h)) :
            input = <<[fn |-> "generateSignature", keyPair |-> GoodKeyPair, shortenOrExtend |-> a,
                       timestamp |-> t, messageHashes |-> h, order |-> f]>>
     \/ \E u \in UnchangedRecords, upd \in {<<>>, <<MessageHash>>}, h \in {<<MessageHash>>, <<MessageHash, <<97>>>>} :
          \E f \in Orders(Len(u)) :
            input = <<[fn |-> "verifySignature", pubkey |-> OurPubKeyObj, expiryApplied |-> 5,
                       messageHashes |-> h, updatedHashes |-> upd, unchangedHashes |-> u,
                       order |-> f]>>
     \/ \E h \in HashSeqs, a \in ActionTokens, t \in Timestamps, other \in OtherRequests :
          input = <<[fn |-> "generateSignatureTwice", keyPair |-> GoodKeyPair, shortenOrExtend |-> a,
                     timestamp |-> t, messageHashes |-> h, other |-> other]>>

\* generateSignature on the hashes as given and on the hashes reordered
GenerateSignature ==
  /\ input # <<>>
  /\ output = <<>>
  /\ input[1].fn = "generateSignature"
  /\ LET in == input[1]
     IN output' = <<[result |-> generateSignature(<<in.keyPair>>, in.shortenOrExtend, in.timestamp,
                                                  in.messageHashes),
                     reordered |-> generateSignature(<<in.keyPair>>, in.shortenOrExtend, in.timestamp,
                                                     Reorder(in.messageHashes, in.order))]>>
  /\ UNCHANGED <<input, coordinatorVars>>

\* the verification string of verifySignature for the unchanged record as
\* given and for the same entries inserted in another order
BuildVerificationString ==
  /\ input # <<>>
  /\ output = <<>>
  /\ input[1].fn = "verifySignature"
  /\ LET in == input[1]
     IN output' = <<[result |-> VerificationString(in.pubkey, in.expiryApplied, in.messageHashes,
                                                   in.updatedHashes, in.unchangedHashes),
                     reordered |-> VerificationString(in.pubkey, in.expiryApplied, in.messageHashes,
                                                      in.updatedHashes,
                                                      Reorder(in.unchangedHashes, in.order))]>>
  /\ UNCHANGED <<input, coordinatorVars>>

\* generateSignature for a request and for another one, with the same key pair
GenerateSignatureTwice ==
  /\ input # <<>>
  /\ output = <<>>
  /\ input[1].fn = "generateSignatureTwice"
  /\ LET in == input[1]
     IN output' = <<[result |-> generateSignature(<<in.keyPair>>, in.shortenOrExtend, in.timestamp,
                                                  in.messageHashes),
                     other |-> generateSignature(<<in.keyPair>>, in.other.shortenOrExtend,
                                                 in.other.timestamp, in.other.messageHashes)]>>
  /\ UNCHANGED <<input, coordinatorVars>>

NextStrings ==
  \/ GenerateSignature
  \/ BuildVerificationString
  \/ GenerateSignatureTwice

SpecStrings == InitStrings /\ [][NextStrings]_vars

Signed == input # <<>> /\ output # <<>> /\ input[1].fn = "generateSignature"
\* the string that was signed
SignedString(signResultOpt) == signResultOpt[1].signature.bytes.msg
SameLength(hashes) == \A i, j \in DOMAIN hashes : Len(hashes[i]) = Len(hashes[j])

\* C14 as claimed: for every non-empty sequence of message hashes, the same
\* hashes in a different order give a different signing string.
C14_AnyReorderChangesString ==
  (/\ Signed
   /\ input[1].messageHashes # <<>>
   /\ Reorder(input[1].messageHashes, input[1].order) # input[1].messageHashes)
  => SignedString(output[1].result) # SignedString(output[1].reordered)

\* C14: for every non-empty sequence of message hashes of one length, the
\* same hashes in a different order give a different signing string; and the
\* string signed is "expire", the action, the expiry in decimal and the
\* hashes in the order given.
C14_ReorderChangesString ==
  Signed
  => /\ (/\ input[1].messageHashes # <<>>
         /\ SameLength(input[1].messageHashes)
         /\ Reorder(input[1].messageHashes, input[1].order) # input[1].messageHashes)
        => SignedString(output[1].result) # SignedString(output[1].reordered)
     /\ LET str == SignedString(output[1].result)
            head == StrExpire \o input[1].shortenOrExtend \o NumberToString(input[1].timestamp)
        IN /\ SubSeq(str, 1, Len(head)) = head
           /\ SubSeq(str, Len(head) + 1, Len(str)) = Join(input[1].messageHashes)

\* two different hashes of one length, signed in both orders
C14_Witness ==
  /\ Signed
  /\ Len(input[1].messageHashes) = 2
  /\ SameLength(input[1].messageHashes)
  /\ input[1].messageHashes[1] # input[1].messageHashes[2]
  /\ input[1].order = <<2, 1>>
  /\ SignedString(output[1].result) # SignedString(output[1].reordered)

Built == input # <<>> /\ output # <<>> /\ input[1].fn = "verifySignature"
SortedAscending(strs) == \A i, j \in DOMAIN strs : i < j => ~StrLess(strs[j], strs[i])

C16_EmptyHashesNotSigned ==
  (Signed /\ input[1].messageHashes = <<>>) => output[1].result = <<>>


\* ---------------------------------------------------- one attempt on its own
\* the most replica entries in the swarm map of one reply
MaxEntries == 2

\* the request of the attempt: for the message hash, or for no hash at all
AttemptParams(messages) ==
  [BuildParams(OurPubKeyObj, GoodKeyPair, MessageHash, 5, FALSE, FALSE,
               generateSignature(<<GoodKeyPair>>, StrEmpty, 5, <<MessageHash>>)[1])
   EXCEPT !.messages = messages]

\* what a replica entry may hold
EntryShapes ==
  {"valid", "invalid", "malformed", "noSignature", "zeroExpiry", "bare", "noUpdated", "ownFields"}
\* its `failed` field: absent, true, or a non-empty string
FailedValues == {"absent", "true", "reason"}

\* the entry keyed by snode n in the reply to `request`
Entry(shape, failed, request, n) ==
  LET good == SignedEntry(request, NodeKey(n), request.messages, request.expiry)
      e == CASE shape = "valid" -> good
             \* signed by another snode than the one the entry is keyed by
             [] shape = "invalid" ->
                  SignedEntry(request, NodeKey(OtherSnode(n)), request.messages, request.expiry)
             \* a signature of the wrong length
             [] shape = "malformed" ->
                  [good EXCEPT !.signature = fromUInt8ArrayToBase64(MalformedSigBytes)]
             [] shape = "noSignature" -> [good EXCEPT !.signature = EmptySignature]
             [] shape = "zeroExpiry" -> SignedEntry(request, NodeKey(n), request.messages, 0)
             \* nothing but `failed`
             [] shape = "bare" ->
                  [failed |-> failed, updated |-> <<>>, unchanged |-> <<>>, expiry |-> 0,
                   signature |-> EmptySignature]
             \* signed, without `updated`
             [] shape = "noUpdated" -> [good EXCEPT !.updated = <<>>]
             \* another expiry than asked for, nothing updated, the hash unchanged
             [] shape = "ownFields" ->
                  LET unchanged == << <<MessageHash, request.expiry + 2>> >>
                  IN [failed |-> failed, updated |-> << <<>> >>, unchanged |-> unchanged,
                      expiry |-> request.expiry + 1,
                      signature |-> fromUInt8ArrayToBase64(
                        SigBytes(fromHexToArray(NodeKey(n)),
                                 VerificationString(request.pubkey, request.expiry + 1,
                                                    request.messages, <<>>, unchanged)))]
  IN [e EXCEPT !.failed = failed]

\* the entries taken: <<shape, failed>>; `failed` is set on the shapes where
\* it is told apart from the rest of what the entry holds
EntryKinds ==
  ({"valid", "invalid", "bare", "noUpdated"} \X FailedValues)
    \cup ((EntryShapes \ {"valid", "invalid", "bare", "noUpdated"}) \X {"absent"})

\* the swarm maps of a reply: entries keyed by the snodes 1..k
SwarmMaps(request) ==
  UNION {{[i \in 1..k |-> <<NodeKey(i), Entry(kind[i][1], kind[i][2], request, i)>>] :
            kind \in [1..k -> EntryKinds]} :
         k \in 1..MaxEntries}

\* what snodeRpc throws when the target does not answer in time
TimeoutError(node) == ErrorValue("TimeoutError", <<node>>, <<>>)

\* what snodeRpc may do for `request`: throw error, or return a result
Replies(request) ==
  LET base == [throws |-> FALSE, error |-> <<>>, isNull |-> FALSE, status |-> 200, body |-> "json",
               swarm |-> <<>>]
  IN {[base EXCEPT !.throws = TRUE, !.error = <<e>>] : e \in {TransportError(1), TimeoutError(1)}}
     \cup {[base EXCEPT !.isNull = TRUE], [base EXCEPT !.status = 500], [base EXCEPT !.body = "empty"],
           [base EXCEPT !.body = "garbage"], base}
     \cup {[base EXCEPT !.swarm = s] : s \in SwarmMaps(request)}

InitReplies ==
  /\ CoordinatorIdle
  /\ \E messages \in {<<>>, <<MessageHash>>} :
       \E reply \in Replies(AttemptParams(messages)) :
         input = <<[fn |-> "expireOnNodes", params |-> AttemptParams(messages), reply |-> reply]>>
  /\ output = <<>>

\* expireOnNodes, were a throwing snodeRpc a failed send
AfterRpcSwallow(reply) ==
  IF reply.throws \/ reply.isNull \/ reply.status # 200 \/ reply.body = "empty" THEN "false"
  ELSE IF reply.body = "garbage" \/ reply.swarm = <<>> THEN "false"
  ELSE "loop"

\* lines 176-195, from the await of snodeRpc to the loop: "throws" (the outer
\* catch rethrows), "false" (a result that is no good; JSON.parse or the
\* isEmpty(swarm) check throws into the inner catch), or "loop"
AfterRpc(reply) ==
  IF reply.throws THEN "throws"
  ELSE IF reply.isNull \/ reply.status # 200 \/ reply.body = "empty" THEN "false"
  ELSE IF reply.body = "garbage" THEN "false"
  ELSE IF reply.swarm = <<>> THEN "false"
  ELSE "loop"

\* lines 176-185, 188 and 117-122: snodeRpc returns or throws
SnodeRpcReturn ==
  /\ input # <<>>
  /\ input[1].fn = "expireOnNodes"
  /\ output = <<>>
  /\ LET reply == input[1].reply
         after == AfterRpc(reply)
     IN output' = <<[pc |-> IF after = "loop" THEN "loop" ELSE "done",
                     rest |-> IF after = "loop" THEN reply.swarm ELSE <<>>,
                     results |-> <<>>,
                     runs |-> <<>>,
                     value |-> IF after = "loop" THEN "pending" ELSE after,
                     error |-> IF after = "throws" THEN reply.error ELSE <<>>]>>
  /\ UNCHANGED <<input, coordinatorVars>>

\* lines 125-160: one turn of the loop, for the next key of the swarm map;
\* runs keeps what verifySignature did for each key
ProcessEntry ==
  /\ output # <<>>
  /\ output[1].pc = "loop"
  /\ output[1].rest # <<>>
  /\ LET o == output[1]
         p == input[1].params
         nodeKey == Head(o.rest)[1]
         e == Head(o.rest)[2]
         run == verifySignatureRun(p.pubkey, nodeKey, e.expiry, e.signature, p.messages, e.updated,
                                   e.unchanged)
         turn == ProcessEntries(p.pubkey, <<Head(o.rest)>>, p.messages, o.results)
     IN output' = <<[o EXCEPT !.pc = IF turn.threw THEN "done" ELSE "loop",
                              !.rest = IF turn.threw THEN o.rest ELSE Tail(o.rest),
                              !.results = turn.results,
                              !.runs = Append(o.runs, [nodeKey |-> nodeKey, entry |-> e, run |-> run]),
                              !.value = IF turn.threw THEN "false" ELSE "pending"]>>
  /\ UNCHANGED <<input, coordinatorVars>>

\* lines 162 and 195-197: the loop is over, expireOnNodes returns true
ExpireOnNodesReturn ==
  /\ output # <<>>
  /\ output[1].pc = "loop"
  /\ output[1].rest = <<>>
  /\ output' = <<[output[1] EXCEPT !.pc = "done", !.value = "true"]>>
  /\ UNCHANGED <<input, coordinatorVars>>

NextReplies ==
  \/ SnodeRpcReturn
  \/ ProcessEntry
  \/ ExpireOnNodesReturn

SpecReplies == InitReplies /\ [][NextReplies]_vars

AttemptDone == output # <<>> /\ output[1].pc = "done"
HasKey(results, nodeKey) == \E i \in DOMAIN results : results[i][1] = nodeKey
Lookup(results, nodeKey) == results[CHOOSE i \in DOMAIN results : results[i][1] = nodeKey][2]
Keys(pairs) == {pairs[i][1] : i \in DOMAIN pairs}

\* the attempt taken turn by turn ends as expireOnNodesResult says
AttemptAgreesWithResult ==
  AttemptDone => output[1].value = expireOnNodesResult(input[1].params, input[1].reply)


\* C11: every replica entry whose `failed` is set (true, or a reason) and that
\* the loop has been through is recorded as FailedResult, an empty list of
\* hashes and expiry 0, whatever the entry reports and whatever its signature.
C11_FailedRecordedEmpty ==
  output # <<>> =>
    \A i \in DOMAIN output[1].runs :
      LET r == output[1].runs[i]
      IN (r.entry.failed # "absent" /\ r.run.result # "throws") =>
           /\ HasKey(output[1].results, r.nodeKey)
           /\ Lookup(output[1].results, r.nodeKey) = FailedResult

\* C12: once expireOnNodes has ended, a snodeRpc that threw has made it throw
\* that same error, and a reply with a status other than 200, with an empty
\* body or with a body that is not JSON has made it return false, with no
\* error thrown.
C12_FalseForBadReplyThrowForTransport ==
  AttemptDone =>
    LET reply == input[1].reply
        o == output[1]
    IN /\ reply.throws => (o.value = "throws" /\ o.error = reply.error)
       /\ (~reply.throws /\ ~reply.isNull
             /\ (reply.status # 200 \/ reply.body \in {"empty", "garbage"}))
            => (o.value = "false" /\ o.error = <<>>)

\* snodeRpc timed out and expireOnNodes has thrown the timeout
C12_Witness ==
  /\ AttemptDone
  /\ input[1].reply.throws
  /\ output[1].value = "throws"
  /\ output[1].error = <<TimeoutError(1)>>


\* C17: what verifySignature gives for an entry it could not check (the
\* primitive threw on malformed bytes) differs from what it gives for an
\* entry whose well-formed signature was checked and is not valid.
C17_MalformedDistinctFromInvalid ==
  output # <<>> =>
    \A i, j \in DOMAIN output[1].runs :
      LET could == output[1].runs[i].run
          failed == output[1].runs[j].run
      IN (could.primitive = "throws" /\ failed.primitive = "false") => could.result # failed.result

\* C18: the outcome recorded for every replica entry the loop has been
\* through carries isSignatureValid, true when the entry's signature verifies
\* and false when it does not.
C18_OutcomeCarriesVerdict ==
  output # <<>> =>
    \A i \in DOMAIN output[1].runs :
      LET r == output[1].runs[i]
      IN r.run.result # "throws" =>
           /\ HasKey(output[1].results, r.nodeKey)
           /\ "isSignatureValid" \in DOMAIN Lookup(output[1].results, r.nodeKey)
           /\ Lookup(output[1].results, r.nodeKey).isSignatureValid = (r.run.result = "true")

\* every entry of the swarm map carries `updated`, as on the wire
WireShaped(swarmMap) == \A i \in DOMAIN swarmMap : swarmMap[i][2].updated # <<>>

Unverifiable(e) == e.signature.empty \/ e.expiry = 0 \/ input[1].params.messages = <<>>

\* C20: for every entry gone through that has an empty signature, a zero or
\* missing expiry, or that answers a request of no hash, verifySignature has
\* returned false without calling crypto_sign_verify_detached, the loop has
\* gone on (the entry is recorded), and if the attempt has ended false it is
\* because verifySignature threw on another entry.
C20_UnverifiableEntrySkipped ==
  output # <<>> =>
    \A i \in DOMAIN output[1].runs :
      LET r == output[1].runs[i]
      IN Unverifiable(r.entry) =>
           /\ r.run = [result |-> "false", primitive |-> "notCalled"]
           /\ HasKey(output[1].results, r.nodeKey)
           /\ (AttemptDone /\ output[1].value # "true") =>
                \E j \in DOMAIN output[1].runs :
                  /\ j # i
                  /\ ~Unverifiable(output[1].runs[j].entry)
                  /\ output[1].runs[j].run.result = "throws"

\* the first of two entries had no signature, the request had a hash, the
\* second entry was verified and expireOnNodes returned true
C20_Witness ==
  /\ AttemptDone
  /\ output[1].value = "true"
  /\ input[1].params.messages # <<>>
  /\ Len(output[1].runs) = 2
  /\ output[1].runs[1].entry.signature.empty
  /\ output[1].runs[1].entry.expiry # 0
  /\ output[1].runs[1].run.primitive = "notCalled"
  /\ output[1].runs[2].run.primitive = "true"


\* C21: whenever crypto_sign_verify_detached was called for an entry, it said
\* true exactly when the entry's signature is well formed, was made by the
\* snode the entry is keyed by, and is over the string built from the owner's
\* key, the requested hashes and this entry's own expiry, updated and
\* unchanged fields.
C21_VerifiedWithOwnKeyAndFields ==
  output # <<>> =>
    \A i \in DOMAIN output[1].runs :
      LET r == output[1].runs[i]
          sig == fromBase64ToArray(r.entry.signature)
          request == input[1].params
      IN r.run.primitive \in {"true", "false", "throws"} =>
           (r.run.primitive = "true" <=>
              /\ sig.wellFormed
              /\ sig.signer = fromHexToArray(r.nodeKey)
              /\ sig.msg = VerificationString(request.pubkey, r.entry.expiry, request.messages,
                                              r.entry.updated[1], r.entry.unchanged))

\* two entries that differ in expiry, updated and unchanged, each signed by
\* its own snode, have both been verified
C21_Witness ==
  /\ AttemptDone
  /\ Len(output[1].runs) = 2
  /\ output[1].runs[1].run.primitive = "true"
  /\ output[1].runs[2].run.primitive = "true"
  /\ output[1].runs[1].entry.expiry # output[1].runs[2].entry.expiry
  /\ output[1].runs[1].entry.updated # output[1].runs[2].entry.updated
  /\ output[1].runs[1].entry.unchanged # output[1].runs[2].entry.unchanged


\* C22: once expireOnNodes has ended, it has returned true exactly when
\* snodeRpc returned a result of status 200 with a body that is not empty and
\* is JSON, an empty or absent swarm map included.
C22_TrueIffParseableReply ==
  AttemptDone =>
    LET reply == input[1].reply
    IN output[1].value = "true" <=>
         (~reply.throws /\ ~reply.isNull /\ reply.status = 200 /\ reply.body = "json")


\* C23: when the invocation has dispatched its attempts and ends raised, the
\* error raised carries the owner's key and the requested message hash, and
\* the replica reported with the failure (snode, in the catch) is one of the
\* used nodes.
C23_FailureTagged ==
  (Dispatched /\ pc = "done" /\ outcome.st = "raised") =>
    /\ outcome.error[1].key = <<ourPubKey[1].key>>
    /\ "messageHash" \in DOMAIN outcome.error[1]
    /\ outcome.error[1].messageHash = props.messageHash
    /\ snode # <<>>
    /\ \E i \in DOMAIN usedNodes : usedNodes[i] = snode[1]


\* the steps before the calls of snodeRpc: validation passed, both keys there,
\* getSwarmFor called once and returned snodes, the clock read once
Prepared ==
  /\ ~(props.extend /\ props.shorten)
  /\ ourPubKey # <<>>
  /\ ourEd25519Key # <<>>
  /\ swarmCalls = 1
  /\ swarm # <<>>
  /\ clockReads = 1
  /\ nowRead # <<>>
C24_State ==
  /\ rpcLog # <<>> => (Prepared /\ signCalls = 1 /\ signResult # <<>>)
  /\ (pc = "done" /\ ~(Prepared /\ signCalls = 1 /\ signResult # <<>>)) => (rpcLog = <<>> /\ ~Dispatched)
C24_Step ==
  rpcLog' # rpcLog =>
    /\ rpcLog = <<>>
    /\ Prepared
    /\ signCalls = 0
    /\ signCalls' = 1
    /\ signResult' # <<>>
\* C24: snodeRpc is called only in an invocation that passed validation, got
\* a non-empty swarm from one getSwarmFor, read the clock once and signed
\* successfully, and only after these steps; an invocation that ends with one
\* of them failed or skipped has called snodeRpc zero times.
C24_CallsOnlyAfterPreparation == [](C24_State) /\ [][C24_Step]_vars

\* an invocation that went through every step and called snodeRpc has returned
C24_Witness ==
  /\ pc = "done"
  /\ outcome = Returned
  /\ Prepared
  /\ signResult # <<>>
  /\ rpcLog # <<>>


SignedTwice == input # <<>> /\ output # <<>> /\ input[1].fn = "generateSignatureTwice"
\* the two requests differ in action, timestamp or hashes
RequestsDiffer ==
  \/ input[1].shortenOrExtend # input[1].other.shortenOrExtend
  \/ input[1].timestamp # input[1].other.timestamp
  \/ input[1].messageHashes # input[1].other.messageHashes

\* C25 as claimed: two requests that differ in action, timestamp or sequence
\* of hashes never have the same signing string.
C25_SigningStringInjective ==
  (SignedTwice /\ RequestsDiffer) => SignedString(output[1].result) # SignedString(output[1].other)

\* C25: two requests whose timestamps have the same number of digits and
\* whose hashes all have one length, and that differ in action, timestamp or
\* sequence of hashes, have different signing strings, and the signature made
\* for one is not the signature made for the other.
C25_InjectiveOnFixedWidths ==
  (/\ SignedTwice
   /\ RequestsDiffer
   /\ Len(NumberToString(input[1].timestamp)) = Len(NumberToString(input[1].other.timestamp))
   /\ SameLength(input[1].messageHashes \o input[1].other.messageHashes))
  => /\ SignedString(output[1].result) # SignedString(output[1].other)
     /\ output[1].result[1].signature # output[1].other[1].signature

\* two requests of equal widths that differ in timestamp and in the order of
\* their hashes
C25_Witness ==
  /\ SignedTwice
  /\ input[1].timestamp = 12
  /\ input[1].other.timestamp = 21
  /\ input[1].messageHashes = <<<<97>>, <<49>>>>
  /\ input[1].other.messageHashes = <<<<49>>, <<97>>>>
  /\ SignedString(output[1].result) # SignedString(output[1].other)


\* --------------------------------------------------------------- termination
\* every continuation runs once the promise it awaits has settled, the
\* collaborators awaited (key pair, swarm, sodium) answer, and every call of
\* snodeRpc made returns or throws
Fairness ==
  /\ WF_vars(Call)
  /\ WF_vars(KeyPairReturn)
  /\ WF_vars(SwarmReturn)
  /\ WF_vars(SignReturn)
  /\ \A i \in 1..MaxSwarm : WF_vars(RpcReply(i))
  /\ WF_vars(Resume)

FairSpec == Spec /\ Fairness

\* C26: under Fairness every invocation ends: it returns or raises, whatever
\* each attempt gives and in whatever order the attempts complete.
C26_Terminates == <>(pc = "done" /\ outcome.st \in {"returned", "raised"})

\* an invocation has ended after its three attempts gave true, false and a throw
C26_Witness ==
  /\ pc = "done"
  /\ Len(attempt) = DEFAULT_CONNECTIONS
  /\ \E i, j, k \in DOMAIN attempt :
       attempt[i].st = "true" /\ attempt[j].st = "false" /\ attempt[k].st = "throws"

====
